---- MODULE Spec2Model ----
(***************************************************************************)
(* Model of the ID-verifier backend, api/server.js: the POST /verify-id    *)
(* route (upload middleware, request handler, top-level catch) and the two *)
(* face helpers detectFace and verifyFaces.                                *)
(*                                                                         *)
(* One step of the model is the code that runs between two awaits of one   *)
(* request: the answer of the awaited collaborator call is the step's      *)
(* input, and everything the handler then does up to the next await (or up *)
(* to the response) is the step's effect.                                  *)
(*                                                                         *)
(* JavaScript values are strings here; the two values that are not strings *)
(* in JavaScript, undefined and null, are the tokens Undefined and Null.   *)
(* An object is a record, and a key that JSON.stringify would leave out is *)
(* a key the record does not have.                                         *)
(***************************************************************************)
EXTENDS Naturals, Sequences, FiniteSets, TLC

\* How many times the extraction job may be found still running before it
\* ends (pollUntilDone loops until the job is terminal).
MaxPolls == 2

\* Request slots. Spec runs one request alone.
Reqs == {1, 2}
Solo == {1}

Undefined == "<undefined>"
Null == "<null>"

\* JavaScript truthiness of a string, undefined or null.
Falsy(v) == v \in {Undefined, Null, ""}
Truthy(v) == ~Falsy(v)

\* a || b
Or(a, b) == IF Falsy(a) THEN b ELSE a

-----------------------------------------------------------------------------
(* Inputs *)

\* What the multipart body holds, as the upload middleware sees it:
\*   notMultipart  another content type: multer passes the request on
\*   malformed     a multipart body the parser rejects (no boundary,
\*                 truncated or empty body)
\*   noFile        a well-formed multipart body without any file part
\*   otherField    a well-formed body whose file part is not named idImage
\*   idImage       a well-formed body with the idImage file part
UploadKinds == {"notMultipart", "malformed", "noFile", "otherField", "idImage"}

EnableFaceMatchValues == {Undefined, "true", "false"}
FaceImageValues == {Undefined, "", "c2VsZmll"}

\* The environment fields of the form, three representative fillings.
Envs ==
  { [ip |-> Undefined, location |-> Undefined, vpnDetected |-> Undefined,
     audioSource |-> Undefined],
    [ip |-> "10.0.0.7", location |-> "Pune", vpnDetected |-> "true",
     audioSource |-> "headset"],
    [ip |-> "10.0.0.7", location |-> "", vpnDetected |-> "false",
     audioSource |-> Undefined] }

Requests ==
  { [upload |-> u, enableFaceMatch |-> e, faceImage |-> f, env |-> v] :
      u \in UploadKinds, e \in EnableFaceMatchValues, f \in FaceImageValues,
      v \in Envs }

NoRequest ==
  [upload |-> "none", enableFaceMatch |-> Undefined, faceImage |-> Undefined,
   env |-> [ip |-> Undefined, location |-> Undefined, vpnDetected |-> Undefined,
            audioSource |-> Undefined]]

\* The fields of an extracted document that the handler reads.
FieldNames == {"DocumentType", "IdNumber", "FirstName", "LastName", "DateOfExpiration"}

\* A field of the document: absent, or present with a value; the value of
\* IdNumber may also be the empty string.
AbsentField == [present |-> FALSE, value |-> Undefined]
FieldChoices(n) ==
  {AbsentField, [present |-> TRUE, value |-> "v:" \o n]}
    \cup (IF n = "IdNumber" THEN {[present |-> TRUE, value |-> ""]} ELSE {})

Docs == { d \in [FieldNames -> UNION {FieldChoices(n) : n \in FieldNames}] :
            \A n \in FieldNames : d[n] \in FieldChoices(n) }

BlankDoc == [fields |-> [n \in FieldNames |-> AbsentField]]

\* What pollUntilDone resolves to: null, or a result with zero, one or two
\* documents.
IdResultsValues ==
  {[t |-> "null"], [t |-> "result", documents |-> <<>>]}
    \cup {[t |-> "result", documents |-> <<[fields |-> d]>>] : d \in Docs}
    \cup {[t |-> "result", documents |-> <<[fields |-> d], BlankDoc>>] : d \in Docs}

NoIdResults == [t |-> "unset"]

\* Messages of the errors a collaborator call may reject with.
ErrMsgs == {"ETIMEDOUT", "Unauthorized"}

\* The errors axios.post may reject with: no response at all, a response
\* with an empty body, a response with a body.
AxiosErrors ==
  { [message |-> "Network Error", hasResponse |-> FALSE, data |-> Undefined],
    [message |-> "Request failed with status code 502", hasResponse |-> TRUE,
     data |-> ""],
    [message |-> "Request failed with status code 401", hasResponse |-> TRUE,
     data |-> "invalid api key"] }

\* response.data of a successful ID Analyzer call: null, an empty string,
\* an object without a decision, an object with one.
AxiosData ==
  { [t |-> "null"], [t |-> "string", s |-> ""],
    [t |-> "object", o |-> [success |-> "true"]],
    [t |-> "object", o |-> [decision |-> "accept"]],
    [t |-> "object", o |-> [decision |-> "reject"]] }

\* What faceClient.path(...).post resolves to: a status and a body.
DetectResults ==
  { [status |-> 200, body |-> <<>>],
    [status |-> 200, body |-> <<[faceId |-> "face-a"]>>],
    [status |-> 429, body |-> <<>>] }

VerifyResults ==
  { [status |-> 200, isIdentical |-> TRUE],
    [status |-> 200, isIdentical |-> FALSE],
    [status |-> 400, isIdentical |-> FALSE] }

-----------------------------------------------------------------------------
(* State *)

VARIABLES
  pc,                \* where each request is
  req,               \* the request as received
  polls,             \* times the extraction job was found still running
  idResults,         \* what pollUntilDone resolved to
  idData,            \* the handler's idData
  idAnalyzerResult,  \* the handler's idAnalyzerResult
  selfieFaceId,      \* the handler's selfieFaceId
  idFaceId,          \* the handler's idFaceId
  faceMatchResult,   \* the handler's faceMatchResult
  caught,            \* the error the top-level catch received, with its origin
  response,          \* the response sent
  sent,              \* how many responses were sent
  calls,             \* the collaborator calls issued, in order
  answers            \* what each call resolved to or rejected with, in order

vars == <<pc, req, polls, idResults, idData, idAnalyzerResult, selfieFaceId,
          idFaceId, faceMatchResult, caught, response, sent, calls, answers>>

NoIdData == [documentType |-> Undefined, idNumber |-> Undefined,
             firstName |-> Undefined, lastName |-> Undefined,
             expiryDate |-> Undefined]

NotCaught == [from |-> "none", message |-> Undefined]
NoResponse == [kind |-> "none", status |-> 0]
NoAnalyzerResult == [t |-> "unset"]

Init ==
  /\ pc = [r \in Reqs |-> "idle"]
  /\ req = [r \in Reqs |-> NoRequest]
  /\ polls = [r \in Reqs |-> 0]
  /\ idResults = [r \in Reqs |-> NoIdResults]
  /\ idData = [r \in Reqs |-> NoIdData]
  /\ idAnalyzerResult = [r \in Reqs |-> NoAnalyzerResult]
  /\ selfieFaceId = [r \in Reqs |-> Undefined]
  /\ idFaceId = [r \in Reqs |-> Undefined]
  /\ faceMatchResult = [r \in Reqs |-> Null]
  /\ caught = [r \in Reqs |-> NotCaught]
  /\ response = [r \in Reqs |-> NoResponse]
  /\ sent = [r \in Reqs |-> 0]
  /\ calls = [r \in Reqs |-> <<>>]
  /\ answers = [r \in Reqs |-> <<>>]

-----------------------------------------------------------------------------
(* The handler's expressions *)

\* upload.single('idImage'): whether the middleware ends with an error
\* (the request never reaches the handler) and whether it sets req.file.
UploadSingle(q) ==
  IF q.upload \in {"malformed", "otherField"}
    THEN [error |-> TRUE, file |-> FALSE]
    ELSE [error |-> FALSE, file |-> (q.upload = "idImage")]

\* The framework's answer to an error no route handles.
DefaultErrorResponse == [kind |-> "html", status |-> 500]

\* !req.file
MissingFile(file) == ~file

NoImageResponse ==
  [kind |-> "json", status |-> 400, body |-> [error |-> "No ID image uploaded"]]

\* The check of line 45 without its length test.
NoDocumentsNullOnly(res) == res.t = "null"

\* !idResults || idResults.documents.length === 0
NoDocuments(res) == res.t = "null" \/ Len(res.documents) = 0

RecognitionFailedResponse ==
  [kind |-> "json", status |-> 400,
   body |-> [error |-> "ID document recognition failed"]]

\* const { fields } = idResults.documents[0] throws a TypeError when there is
\* no idResults or no first document.
DestructureThrows(res) == res.t = "null" \/ Len(res.documents) = 0

FirstFields(res) == res.documents[1].fields

\* fields[n]?.value
FieldValue(fields, n) == IF fields[n].present THEN fields[n].value ELSE Undefined

\* idData without the || defaults.
BuildIdDataNoDefaults(fields) ==
  [documentType |-> FieldValue(fields, "DocumentType"),
   idNumber |-> FieldValue(fields, "IdNumber"),
   firstName |-> FieldValue(fields, "FirstName"),
   lastName |-> FieldValue(fields, "LastName"),
   expiryDate |-> FieldValue(fields, "DateOfExpiration")]

BuildIdData(fields) ==
  [documentType |-> Or(FieldValue(fields, "DocumentType"), "Unknown"),
   idNumber |-> Or(FieldValue(fields, "IdNumber"), ""),
   firstName |-> Or(FieldValue(fields, "FirstName"), ""),
   lastName |-> Or(FieldValue(fields, "LastName"), ""),
   expiryDate |-> Or(FieldValue(fields, "DateOfExpiration"), "")]

\* The inner catch with details: err.response.data alone, which is left out
\* of the JSON when there is none.
IdAnalyzerFailureNoDetails(err) ==
  IF err.hasResponse
    THEN [t |-> "object",
          o |-> [error |-> "ID Analyzer request failed", details |-> err.data]]
    ELSE [t |-> "object", o |-> [error |-> "ID Analyzer request failed"]]

\* The inner catch: err?.response?.data || err.message
IdAnalyzerFailure(err) ==
  [t |-> "object",
   o |-> [error |-> "ID Analyzer request failed",
          details |-> Or(IF err.hasResponse THEN err.data ELSE Undefined,
                         err.message)]]

\* The face step's condition with || and a truthiness test of the flag.
FaceMatchRequestedLoose(q) == Truthy(q.enableFaceMatch) \/ Truthy(q.faceImage)

\* req.body.enableFaceMatch === 'true' && req.body.faceImage
FaceMatchRequested(q) == q.enableFaceMatch = "true" /\ Truthy(q.faceImage)

\* detectFace without its status check.
DetectFaceUnchecked(result) ==
  [threw |-> FALSE, message |-> Undefined,
   faceId |-> IF Len(result.body) = 0 THEN Undefined ELSE result.body[1].faceId]

\* detectFace after its await: throws on a status other than 200, else
\* result.body[0]?.faceId
DetectFace(result) ==
  IF result.status # 200
    THEN [threw |-> TRUE, message |-> "Face detection failed", faceId |-> Undefined]
    ELSE [threw |-> FALSE, message |-> Undefined,
          faceId |-> IF Len(result.body) = 0 THEN Undefined
                     ELSE result.body[1].faceId]

\* verifyFaces after its await
VerifyFaces(result) ==
  IF result.status # 200
    THEN [threw |-> TRUE, message |-> "Face verification failed",
          isIdentical |-> FALSE]
    ELSE [threw |-> FALSE, message |-> Undefined,
          isIdentical |-> result.isIdentical]

\* The test of line 100 without its second operand.
SelfieDetected(selfie, idFace) == Truthy(selfie)

\* selfieFaceId || idFaceId
EitherDetected(selfie, idFace) == Truthy(selfie) \/ Truthy(idFace)

\* selfieFaceId && idFaceId
BothDetected(selfie, idFace) == Truthy(selfie) /\ Truthy(idFace)

\* The verdict with its branches swapped.
VerdictSwapped(isIdentical) == IF isIdentical THEN "NO_MATCH" ELSE "MATCH"

\* isIdentical ? 'MATCH' : 'NO_MATCH'
Verdict(isIdentical) == IF isIdentical THEN "MATCH" ELSE "NO_MATCH"

NoFaceVerdict == "NO_FACE_DETECTED"

EnvironmentData(q) ==
  [ip |-> Or(q.env.ip, "Unknown"),
   location |-> Or(q.env.location, "Unknown"),
   vpnDetected |-> (q.env.vpnDetected = "true"),
   audioSource |-> Or(q.env.audioSource, "Unknown")]

\* a === b on a boolean or a string
StrictEquals(a, b) == a.type = b.type /\ a.v = b.v

\* idAnalyzerResult.decision; reading it of null throws
Decision(idA) ==
  IF idA.t = "object" /\ "decision" \in DOMAIN idA.o THEN idA.o.decision
  ELSE Undefined

\* idData.idNumber && !idAnalyzerResult.decision === 'accept' ? 'VERIFIED' : 'FAILED'
\* which JavaScript reads as
\* (idData.idNumber && ((!idAnalyzerResult.decision) === 'accept')) ? ... : ...
ReportStatus(data, idA) ==
  IF Falsy(data.idNumber)
    THEN [threw |-> FALSE, message |-> Undefined, status |-> "FAILED"]
  ELSE IF idA.t = "null"
    THEN [threw |-> TRUE,
          message |-> "Cannot read properties of null (reading 'decision')",
          status |-> Undefined]
  ELSE [threw |-> FALSE, message |-> Undefined,
        status |-> IF StrictEquals([type |-> "boolean", v |-> Falsy(Decision(idA))],
                                   [type |-> "string", v |-> "accept"])
                     THEN "VERIFIED" ELSE "FAILED"]

Now == "<new Date().toISOString()>"

VerificationReport(q, data, fm, idA, status) ==
  [timestamp |-> Now,
   candidate |-> <<data.firstName, " ", data.lastName>>,
   idData |-> data,
   faceMatch |-> fm,
   environment |-> EnvironmentData(q),
   idAnalyzer |-> idA,
   status |-> status]

ReportResponse(report) == [kind |-> "report", status |-> 200, body |-> report]

\* The top-level catch
CatchResponse(err) ==
  [kind |-> "json", status |-> 500,
   body |-> [error |-> "Internal server error", details |-> err.message]]

-----------------------------------------------------------------------------
(* Steps *)

Others == <<polls, idResults, idData, idAnalyzerResult, selfieFaceId, idFaceId,
            faceMatchResult>>

Returned(res) == [threw |-> FALSE, result |-> res]
Rejected(m) == [threw |-> TRUE, message |-> m]

\* The awaited call of request r has ended with a.
Answered(r, a) == answers' = [answers EXCEPT ![r] = Append(@, a)]

\* res.status(...).json(...) or res.send(...): one response, and the handler
\* is over.
Respond(r, resp) ==
  /\ response' = [response EXCEPT ![r] = resp]
  /\ sent' = [sent EXCEPT ![r] = @ + 1]
  /\ pc' = [pc EXCEPT ![r] = "done"]

\* A top-level catch that logs and sends nothing.
ThrowUnanswered(r, from, message) ==
  /\ caught' = [caught EXCEPT ![r] = [from |-> from, message |-> message]]
  /\ pc' = [pc EXCEPT ![r] = "done"]
  /\ UNCHANGED <<response, sent>>

\* A throw inside the try block: the top-level catch answers 500.
Throw(r, from, message) ==
  /\ caught' = [caught EXCEPT ![r] = [from |-> from, message |-> message]]
  /\ Respond(r, CatchResponse([message |-> message]))

\* A collaborator call is issued and awaited.
Await(r, call, at) ==
  /\ calls' = [calls EXCEPT ![r] = Append(@, call)]
  /\ pc' = [pc EXCEPT ![r] = at]
  /\ UNCHANGED <<response, sent, caught>>

\* Steps 4 and 5 with idData kept in a module-level variable, which another
\* request that got its documents has overwritten.
FinishSharedIdData(r, idA, fm) ==
  LET other == CHOOSE q \in Reqs : q # r
      data == IF idData[other] # NoIdData THEN idData[other] ELSE idData[r]
      st == ReportStatus(data, idA)
  IN IF st.threw
       THEN Throw(r, "TypeError", st.message)
       ELSE /\ Respond(r, ReportResponse(
                            VerificationReport(req[r], data, fm, idA, st.status)))
            /\ UNCHANGED caught

\* Steps 4 and 5: the report is assembled and sent, unless computing the
\* status throws.
Finish(r, idA, fm) ==
  LET st == ReportStatus(idData[r], idA) IN
  IF st.threw
    THEN Throw(r, "TypeError", st.message)
    ELSE /\ Respond(r, ReportResponse(
                         VerificationReport(req[r], idData[r], fm, idA, st.status)))
         /\ UNCHANGED caught

\* A request arrives.
Receive(r) ==
  /\ pc[r] = "idle"
  /\ \E q \in Requests : req' = [req EXCEPT ![r] = q]
  /\ pc' = [pc EXCEPT ![r] = "multer"]
  /\ UNCHANGED <<Others, caught, response, sent, calls, answers>>

\* The upload middleware has read the body. On an error the handler is
\* skipped; else the handler runs up to its first await.
Upload(r) ==
  /\ pc[r] = "multer"
  /\ LET up == UploadSingle(req[r]) IN
       IF up.error
         THEN Respond(r, DefaultErrorResponse) /\ UNCHANGED <<caught, calls>>
       ELSE IF MissingFile(up.file)
         THEN Respond(r, NoImageResponse) /\ UNCHANGED <<caught, calls>>
       ELSE Await(r, "beginAnalyzeDocument", "beginAnalyze")
  /\ UNCHANGED <<req, Others, answers>>

\* beginAnalyzeDocument resolves to a poller, or rejects.
BeginAnalyzeReturns(r) ==
  /\ pc[r] = "beginAnalyze"
  /\ Answered(r, Returned("poller"))
  /\ Await(r, "pollUntilDone", "polling")
  /\ UNCHANGED <<req, Others>>

BeginAnalyzeThrows(r) ==
  /\ pc[r] = "beginAnalyze"
  /\ \E m \in ErrMsgs : Answered(r, Rejected(m)) /\ Throw(r, "beginAnalyzeDocument", m)
  /\ UNCHANGED <<req, Others, calls>>

\* pollUntilDone finds the job still running and polls again.
PollAgain(r) ==
  /\ pc[r] = "polling"
  /\ polls[r] < MaxPolls
  /\ polls' = [polls EXCEPT ![r] = @ + 1]
  /\ UNCHANGED <<pc, req, idResults, idData, idAnalyzerResult, selfieFaceId,
                 idFaceId, faceMatchResult, caught, response, sent, calls,
                 answers>>

PollThrows(r) ==
  /\ pc[r] = "polling"
  /\ \E m \in ErrMsgs : Answered(r, Rejected(m)) /\ Throw(r, "pollUntilDone", m)
  /\ UNCHANGED <<req, Others, calls>>

\* pollUntilDone resolves, with the ID Analyzer call fired before the
\* documents are looked at.
PollDoneCallsFirst(r) ==
  /\ pc[r] = "polling"
  /\ \E res \in IdResultsValues :
       /\ Answered(r, Returned(res))
       /\ idResults' = [idResults EXCEPT ![r] = res]
       /\ calls' = [calls EXCEPT ![r] = Append(@, "idAnalyzer")]
       /\ IF NoDocuments(res)
            THEN /\ Respond(r, RecognitionFailedResponse)
                 /\ UNCHANGED <<idData, caught>>
            ELSE /\ idData' = [idData EXCEPT ![r] = BuildIdData(FirstFields(res))]
                 /\ pc' = [pc EXCEPT ![r] = "idAnalyzer"]
                 /\ UNCHANGED <<response, sent, caught>>
  /\ UNCHANGED <<req, polls, idAnalyzerResult, selfieFaceId, idFaceId,
                 faceMatchResult>>

\* pollUntilDone resolves: no documents is a 400; else idData is built and
\* the ID Analyzer call is issued.
PollDone(r) ==
  /\ pc[r] = "polling"
  /\ \E res \in IdResultsValues :
       /\ Answered(r, Returned(res))
       /\ idResults' = [idResults EXCEPT ![r] = res]
       /\ IF NoDocuments(res)
            THEN /\ Respond(r, RecognitionFailedResponse)
                 /\ UNCHANGED <<idData, caught, calls>>
          ELSE IF DestructureThrows(res)
            THEN /\ Throw(r, "TypeError",
                          "Cannot read properties of undefined (reading 'fields')")
                 /\ UNCHANGED <<idData, calls>>
          ELSE /\ idData' = [idData EXCEPT ![r] = BuildIdData(FirstFields(res))]
               /\ Await(r, "idAnalyzer", "idAnalyzer")
  /\ UNCHANGED <<req, polls, idAnalyzerResult, selfieFaceId, idFaceId,
                 faceMatchResult>>

\* After step 2, with the two detections dispatched together
\* (Promise.all) instead of awaited one after the other.
AfterIdAnalyzerParallel(r, idA) ==
  /\ idAnalyzerResult' = [idAnalyzerResult EXCEPT ![r] = idA]
  /\ IF FaceMatchRequested(req[r])
       THEN /\ calls' = [calls EXCEPT
                           ![r] = @ \o <<"detectFace(selfie)", "detectFace(id)">>]
            /\ pc' = [pc EXCEPT ![r] = "detectSelfie"]
            /\ UNCHANGED <<response, sent, caught>>
       ELSE Finish(r, idA, faceMatchResult[r]) /\ UNCHANGED calls
  /\ UNCHANGED <<req, polls, idResults, idData, selfieFaceId, idFaceId,
                 faceMatchResult>>

\* After step 2: the face step starts, or the report is sent.
AfterIdAnalyzer(r, idA) ==
  /\ idAnalyzerResult' = [idAnalyzerResult EXCEPT ![r] = idA]
  /\ IF FaceMatchRequested(req[r])
       THEN Await(r, "detectFace(selfie)", "detectSelfie")
       ELSE Finish(r, idA, faceMatchResult[r]) /\ UNCHANGED calls
  /\ UNCHANGED <<req, polls, idResults, idData, selfieFaceId, idFaceId,
                 faceMatchResult>>

IdAnalyzerReturns(r) ==
  /\ pc[r] = "idAnalyzer"
  /\ \E d \in AxiosData : Answered(r, Returned(d)) /\ AfterIdAnalyzer(r, d)

\* The inner catch takes the error; the handler goes on.
IdAnalyzerThrows(r) ==
  /\ pc[r] = "idAnalyzer"
  /\ \E e \in AxiosErrors :
       Answered(r, Rejected(e.message)) /\ AfterIdAnalyzer(r, IdAnalyzerFailure(e))

\* detectFace(faceBuffer)
DetectSelfieReturns(r) ==
  /\ pc[r] = "detectSelfie"
  /\ \E res \in DetectResults :
       LET d == DetectFace(res) IN
       /\ Answered(r, Returned(res))
       /\ IF d.threw
            THEN Throw(r, "detectFace", d.message) /\ UNCHANGED <<selfieFaceId, calls>>
            ELSE /\ selfieFaceId' = [selfieFaceId EXCEPT ![r] = d.faceId]
                 /\ Await(r, "detectFace(id)", "detectId")
  /\ UNCHANGED <<req, polls, idResults, idData, idAnalyzerResult, idFaceId,
                 faceMatchResult>>

\* A rejected selfie detection that is tried again.
DetectSelfieRetried(r) ==
  /\ pc[r] = "detectSelfie"
  /\ \E m \in ErrMsgs : Answered(r, Rejected(m))
  /\ calls' = [calls EXCEPT ![r] = Append(@, "detectFace(selfie)")]
  /\ UNCHANGED <<pc, req, Others, response, sent, caught>>

DetectSelfieThrows(r) ==
  /\ pc[r] = "detectSelfie"
  /\ \E m \in ErrMsgs : Answered(r, Rejected(m)) /\ Throw(r, "detectFace", m)
  /\ UNCHANGED <<req, Others, calls>>

\* detectFace(idBuffer), then the verdict or the verification call
DetectIdReturns(r) ==
  /\ pc[r] = "detectId"
  /\ \E res \in DetectResults :
       LET d == DetectFace(res) IN
       /\ Answered(r, Returned(res))
       /\ IF d.threw
            THEN Throw(r, "detectFace", d.message)
                 /\ UNCHANGED <<idFaceId, faceMatchResult, calls>>
          ELSE /\ idFaceId' = [idFaceId EXCEPT ![r] = d.faceId]
               /\ IF BothDetected(selfieFaceId[r], d.faceId)
                    THEN Await(r, "verifyFaces", "verify") /\ UNCHANGED faceMatchResult
                    ELSE /\ faceMatchResult' =
                              [faceMatchResult EXCEPT ![r] = NoFaceVerdict]
                         /\ Finish(r, idAnalyzerResult[r], NoFaceVerdict)
                         /\ UNCHANGED calls
  /\ UNCHANGED <<req, polls, idResults, idData, idAnalyzerResult, selfieFaceId>>

DetectIdThrows(r) ==
  /\ pc[r] = "detectId"
  /\ \E m \in ErrMsgs : Answered(r, Rejected(m)) /\ Throw(r, "detectFace", m)
  /\ UNCHANGED <<req, Others, calls>>

\* verifyFaces(selfieFaceId, idFaceId), then the report
VerifyReturns(r) ==
  /\ pc[r] = "verify"
  /\ \E res \in VerifyResults :
       LET v == VerifyFaces(res) IN
       /\ Answered(r, Returned(res))
       /\ IF v.threw
            THEN Throw(r, "verifyFaces", v.message) /\ UNCHANGED faceMatchResult
            ELSE /\ faceMatchResult' =
                      [faceMatchResult EXCEPT ![r] = Verdict(v.isIdentical)]
                 /\ Finish(r, idAnalyzerResult[r], Verdict(v.isIdentical))
  /\ UNCHANGED <<req, polls, idResults, idData, idAnalyzerResult, selfieFaceId,
                 idFaceId, calls>>

VerifyThrows(r) ==
  /\ pc[r] = "verify"
  /\ \E m \in ErrMsgs : Answered(r, Rejected(m)) /\ Throw(r, "verifyFaces", m)
  /\ UNCHANGED <<req, Others, calls>>

\* Every step of a request but its arrival.
Handle(r) ==
  \/ Upload(r)
  \/ BeginAnalyzeReturns(r)
  \/ BeginAnalyzeThrows(r)
  \/ PollAgain(r)
  \/ PollThrows(r)
  \/ PollDone(r)
  \/ IdAnalyzerReturns(r)
  \/ IdAnalyzerThrows(r)
  \/ DetectSelfieReturns(r)
  \/ DetectSelfieThrows(r)
  \/ DetectIdReturns(r)
  \/ DetectIdThrows(r)
  \/ VerifyReturns(r)
  \/ VerifyThrows(r)

Next == \E r \in Solo : Receive(r) \/ Handle(r)

\* One request, handled alone.
Spec == Init /\ [][Next]_vars

\* The same, where the body is eventually read and every awaited call
\* eventually resolves or rejects.
FairSpec == Spec /\ \A r \in Solo : WF_vars(Handle(r))

-----------------------------------------------------------------------------
(* Requests in flight together *)

\* The inputs of the concurrent runs: fewer of each kind than in Requests,
\* IdResultsValues, ErrMsgs, AxiosData and AxiosErrors, and different enough
\* for the data of one request to show in the response of another.
ConcRequests ==
  { q \in Requests :
      /\ q.upload \in {"idImage", "noFile"}
      /\ q.enableFaceMatch \in {"true", "false"}
      /\ q.faceImage = "c2VsZmll"
      /\ q.env.vpnDetected = "true" }

FullDoc == [fields |-> [n \in FieldNames |-> [present |-> TRUE, value |-> "v:" \o n]]]

ConcIdResults ==
  { [t |-> "result", documents |-> <<>>],
    [t |-> "result", documents |-> <<FullDoc>>],
    [t |-> "result", documents |-> <<BlankDoc>>] }

ConcErrMsgs == {"ETIMEDOUT"}
ConcAxiosData == {[t |-> "null"], [t |-> "object", o |-> [decision |-> "accept"]]}
ConcAxiosErrMsgs == {"Network Error"}

\* The message the last call of r rejected with.
LastRejection(r) == answers'[r][Len(answers'[r])].message

\* A step of request r, whatever the other requests are doing.
ConcStep(r) ==
  \/ Receive(r) /\ req'[r] \in ConcRequests
  \/ Upload(r)
  \/ BeginAnalyzeReturns(r)
  \/ BeginAnalyzeThrows(r) /\ LastRejection(r) \in ConcErrMsgs
  \/ PollAgain(r)
  \/ PollThrows(r) /\ LastRejection(r) \in ConcErrMsgs
  \/ PollDone(r) /\ idResults'[r] \in ConcIdResults
  \/ IdAnalyzerReturns(r) /\ idAnalyzerResult'[r] \in ConcAxiosData
  \/ IdAnalyzerThrows(r) /\ LastRejection(r) \in ConcAxiosErrMsgs
  \/ DetectSelfieReturns(r)
  \/ DetectSelfieThrows(r) /\ LastRejection(r) \in ConcErrMsgs
  \/ DetectIdReturns(r)
  \/ DetectIdThrows(r) /\ LastRejection(r) \in ConcErrMsgs
  \/ VerifyReturns(r)
  \/ VerifyThrows(r) /\ LastRejection(r) \in ConcErrMsgs

ConcNext == \E r \in Reqs : ConcStep(r)

\* Every request slot in use, the requests interleaved at their awaits in
\* any order.
ConcSpec == Init /\ [][ConcNext]_vars

-----------------------------------------------------------------------------
(* Properties *)

FaceCalls == {"detectFace(selfie)", "detectFace(id)", "verifyFaces"}

\* Whether the call has ended, and with what.
HasAnswer(r, call) == \E i \in DOMAIN answers[r] : calls[r][i] = call
AnswerTo(r, call) == answers[r][CHOOSE i \in DOMAIN answers[r] : calls[r][i] = call]

Done(r) == pc[r] = "done"
IsReport(r) == response[r].kind = "report"

\* C1: every request without an idImage part, malformed and empty multipart
\* bodies included, is answered 400 with a JSON body that has an error field.
C1_NoIdImageIs400 ==
  \A r \in Reqs :
    (Done(r) /\ req[r].upload # "idImage") =>
      /\ response[r].status = 400
      /\ response[r].kind = "json"
      /\ "error" \in DOMAIN response[r].body

\* The extraction job of r completed with zero documents.
ZeroDocuments(r) ==
  /\ HasAnswer(r, "pollUntilDone")
  /\ ~AnswerTo(r, "pollUntilDone").threw
  /\ AnswerTo(r, "pollUntilDone").result.t = "result"
  /\ Len(AnswerTo(r, "pollUntilDone").result.documents) = 0

\* C2: when the extraction job completes with zero documents the response is
\* 400 with an {error} body, whatever the other fields of the request are.
C2_ZeroDocumentsIs400 ==
  \A r \in Reqs :
    ZeroDocuments(r) =>
      /\ Done(r)
      /\ response[r].status = 400
      /\ response[r].kind = "json"
      /\ DOMAIN response[r].body = {"error"}

C2_Witness ==
  \E r \in Reqs :
    /\ ZeroDocuments(r)
    /\ req[r].enableFaceMatch = "true"
    /\ req[r].faceImage = "c2VsZmll"
    /\ req[r].env.vpnDetected = "true"
    /\ response[r].status = 400

IdAnalyzerThrew(r) == HasAnswer(r, "idAnalyzer") /\ AnswerTo(r, "idAnalyzer").threw

\* A face call of r threw or returned a status other than 200.
FaceStepFailed(r) ==
  \E i \in DOMAIN answers[r] :
    /\ calls[r][i] \in FaceCalls
    /\ (answers[r][i].threw \/ answers[r][i].result.status # 200)

\* The response of r is a 200 report whose idAnalyzer is {error, details}.
ReportWithAnalyzerError(r) ==
  /\ response[r].status = 200
  /\ IsReport(r)
  /\ response[r].body.idAnalyzer.t = "object"
  /\ DOMAIN response[r].body.idAnalyzer.o = {"error", "details"}

\* C3 as stated: when the ID Analyzer call throws, the response is 200 and
\* the report's idAnalyzer is {error, details}.
C3_AnalyzerThrowIs200 ==
  \A r \in Reqs : (Done(r) /\ IdAnalyzerThrew(r)) => ReportWithAnalyzerError(r)

\* C3, amended: when the ID Analyzer call throws and no face call afterwards
\* throws or returns a status other than 200, the response is 200 and the
\* report's idAnalyzer is {error, details}; the throw itself never ends the
\* request.
C3_AnalyzerThrowIs200UnlessFaceFails ==
  \A r \in Reqs :
    IdAnalyzerThrew(r) =>
      /\ caught[r].from \notin {"idAnalyzer", "TypeError"}
      /\ (Done(r) /\ ~FaceStepFailed(r)) => ReportWithAnalyzerError(r)

C3_Witness ==
  \E r \in Reqs :
    /\ Done(r)
    /\ IdAnalyzerThrew(r)
    /\ HasAnswer(r, "verifyFaces")
    /\ ~FaceStepFailed(r)
    /\ response[r].body.idData.idNumber # ""
    /\ response[r].body.idAnalyzer.o.details = "Network Error"

\* The i-th call of r is one the top-level catch answers for, and it failed.
FailedCall(r, i) ==
  \/ /\ calls[r][i] \in {"beginAnalyzeDocument", "pollUntilDone"}
     /\ answers[r][i].threw
  \/ /\ calls[r][i] \in FaceCalls
     /\ (answers[r][i].threw \/ answers[r][i].result.status # 200)

\* The message of the error that call threw.
ThrownMessage(r, i) ==
  IF answers[r][i].threw THEN answers[r][i].message
  ELSE IF calls[r][i] = "verifyFaces" THEN "Face verification failed"
  ELSE "Face detection failed"

\* C4: when the extraction call (submit or poll), a face detection or the
\* face verification throws, or a face call returns a status other than 200,
\* the request ends with 500 and {error, details}, details being the thrown
\* error's message, and with no report.
C4_FailedCallIs500 ==
  \A r \in Reqs :
    \A i \in DOMAIN answers[r] :
      FailedCall(r, i) =>
        /\ Done(r)
        /\ sent[r] = 1
        /\ response[r].status = 500
        /\ response[r].kind = "json"
        /\ DOMAIN response[r].body = {"error", "details"}
        /\ response[r].body.details = ThrownMessage(r, i)

C4_Witness ==
  \E r \in Reqs :
    /\ HasAnswer(r, "verifyFaces")
    /\ ~AnswerTo(r, "verifyFaces").threw
    /\ AnswerTo(r, "verifyFaces").result.status # 200
    /\ response[r].status = 500

\* C5: every request gets exactly one response: never more than one, a
\* finished request has one, and a request that arrived is eventually
\* finished.
C5_ExactlyOneResponse ==
  /\ [](\A r \in Reqs : sent[r] <= 1 /\ (Done(r) => sent[r] = 1))
  /\ \A r \in Solo : (pc[r] # "idle") ~> (Done(r) /\ sent[r] = 1)

C5_Witness ==
  \E r \in Reqs :
    /\ Done(r)
    /\ sent[r] = 1
    /\ caught[r].from = "pollUntilDone"
    /\ polls[r] = MaxPolls

\* The extraction job of r returned at least one document.
SomeDocument(r) ==
  /\ HasAnswer(r, "pollUntilDone")
  /\ ~AnswerTo(r, "pollUntilDone").threw
  /\ AnswerTo(r, "pollUntilDone").result.t = "result"
  /\ Len(AnswerTo(r, "pollUntilDone").result.documents) > 0

\* The fields of the first document the extraction job of r returned.
ReturnedFields(r) == AnswerTo(r, "pollUntilDone").result.documents[1].fields

\* The idData key each document field goes to.
KeyOf ==
  [DocumentType |-> "documentType", IdNumber |-> "idNumber",
   FirstName |-> "firstName", LastName |-> "lastName",
   DateOfExpiration |-> "expiryDate"]

\* C6: whichever fields of the first document are absent, building idData
\* does not throw (the handler goes on to the ID Analyzer call), an absent
\* DocumentType gives 'Unknown', any other absent field gives '', and no
\* entry of idData is undefined.
C6_AbsentFieldsDefault ==
  \A r \in Reqs :
    SomeDocument(r) =>
      /\ \E i \in DOMAIN calls[r] : calls[r][i] = "idAnalyzer"
      /\ \A n \in FieldNames :
           /\ idData[r][KeyOf[n]] # Undefined
           /\ ~ReturnedFields(r)[n].present =>
                idData[r][KeyOf[n]] = (IF n = "DocumentType" THEN "Unknown" ELSE "")

C6_Witness ==
  \E r \in Reqs :
    /\ SomeDocument(r)
    /\ ~ReturnedFields(r)["DocumentType"].present
    /\ ~ReturnedFields(r)["IdNumber"].present
    /\ ReturnedFields(r)["FirstName"].present
    /\ ~ReturnedFields(r)["DateOfExpiration"].present
    /\ IsReport(r)
    /\ response[r].body.idData.documentType = "Unknown"
    /\ response[r].body.idData.expiryDate = ""

\* C7: when enableFaceMatch is 'false' or absent and there is no faceImage,
\* neither face detection nor face verification is ever called, and the
\* report's faceMatch is null.
C7_NoFaceMatchNoFaceCalls ==
  \A r \in Reqs :
    (req[r].enableFaceMatch \in {Undefined, "false"} /\ req[r].faceImage = Undefined) =>
      /\ \A i \in DOMAIN calls[r] : calls[r][i] \notin FaceCalls
      /\ IsReport(r) => response[r].body.faceMatch = Null

C7_Witness ==
  \E r \in Reqs :
    /\ req[r].enableFaceMatch = "false"
    /\ req[r].faceImage = Undefined
    /\ IsReport(r)
    /\ response[r].body.faceMatch = Null

\* The face detection `call` of r returned 200 without a face, or with one.
NoFaceReturned(r, call) ==
  /\ HasAnswer(r, call)
  /\ ~AnswerTo(r, call).threw
  /\ AnswerTo(r, call).result.status = 200
  /\ Len(AnswerTo(r, call).result.body) = 0

FaceReturned(r, call) ==
  /\ HasAnswer(r, call)
  /\ ~AnswerTo(r, call).threw
  /\ AnswerTo(r, call).result.status = 200
  /\ Len(AnswerTo(r, call).result.body) > 0

FaceMatchAsked(r) == req[r].enableFaceMatch = "true" /\ req[r].faceImage = "c2VsZmll"

\* C8: with enableFaceMatch 'true' and a faceImage, when face detection
\* returns no face id for the selfie or for the ID image, the report's
\* faceMatch is NO_FACE_DETECTED.
C8_NoFaceDetected ==
  \A r \in Reqs :
    ( /\ IsReport(r)
      /\ FaceMatchAsked(r)
      /\ NoFaceReturned(r, "detectFace(selfie)") \/ NoFaceReturned(r, "detectFace(id)") )
    => response[r].body.faceMatch = "NO_FACE_DETECTED"

C8_Witness ==
  \E r \in Reqs :
    /\ IsReport(r)
    /\ FaceMatchAsked(r)
    /\ FaceReturned(r, "detectFace(selfie)")
    /\ NoFaceReturned(r, "detectFace(id)")
    /\ response[r].body.faceMatch = "NO_FACE_DETECTED"

\* Face verification of r returned 200 with isIdentical = b.
VerifyReturned(r, b) ==
  /\ HasAnswer(r, "verifyFaces")
  /\ ~AnswerTo(r, "verifyFaces").threw
  /\ AnswerTo(r, "verifyFaces").result.status = 200
  /\ AnswerTo(r, "verifyFaces").result.isIdentical = b

\* C9: with enableFaceMatch 'true', a faceImage and a face id from both
\* detections, the report's faceMatch is MATCH when verification returns
\* isIdentical = true and NO_MATCH when it returns false.
C9_VerdictFollowsVerification ==
  \A r \in Reqs :
    ( /\ IsReport(r)
      /\ FaceMatchAsked(r)
      /\ FaceReturned(r, "detectFace(selfie)")
      /\ FaceReturned(r, "detectFace(id)") )
    => /\ VerifyReturned(r, TRUE) => response[r].body.faceMatch = "MATCH"
       /\ VerifyReturned(r, FALSE) => response[r].body.faceMatch = "NO_MATCH"
       /\ VerifyReturned(r, TRUE) \/ VerifyReturned(r, FALSE)

C9_Witness ==
  \E r \in Reqs :
    /\ IsReport(r)
    /\ FaceMatchAsked(r)
    /\ FaceReturned(r, "detectFace(selfie)")
    /\ FaceReturned(r, "detectFace(id)")
    /\ VerifyReturned(r, FALSE)
    /\ response[r].body.faceMatch = "NO_MATCH"

\* C10: in every 200 report, status is VERIFIED when idData.idNumber is not
\* empty, and FAILED otherwise.
C10_StatusFollowsIdNumber ==
  \A r \in Reqs :
    IsReport(r) =>
      response[r].body.status =
        (IF response[r].body.idData.idNumber # "" THEN "VERIFIED" ELSE "FAILED")

\* The order of the collaborator calls in the handler.
CallOrder ==
  <<"beginAnalyzeDocument", "pollUntilDone", "idAnalyzer", "detectFace(selfie)",
    "detectFace(id)", "verifyFaces">>

\* C11: within a request the calls are issued in the fixed order extraction
\* (submit, poll), ID Analyzer, selfie detection, ID-image detection,
\* verification; a call is issued only when every earlier one has ended, so
\* at most one call, and never both detections, is outstanding; and no
\* response is sent while a call is outstanding.
C11_SequentialCalls ==
  \A r \in Reqs :
    /\ Len(calls[r]) <= Len(CallOrder)
    /\ calls[r] = SubSeq(CallOrder, 1, Len(calls[r]))
    /\ Len(answers[r]) <= Len(calls[r])
    /\ Len(calls[r]) <= Len(answers[r]) + 1
    /\ ~(HasAnswer(r, "detectFace(id)") /\ ~HasAnswer(r, "detectFace(selfie)"))
    /\ sent[r] > 0 => Len(answers[r]) = Len(calls[r])

C11_Witness ==
  \E r \in Reqs :
    /\ calls[r] = CallOrder
    /\ Len(answers[r]) = Len(calls[r])
    /\ IsReport(r)
    /\ sent[r] = 1

\* How many calls of r are among `which`.
CallCount(r, which) == Cardinality({i \in DOMAIN calls[r] : calls[r][i] \in which})

\* C12: no call is retried: in a request the extraction job is submitted at
\* most once (and awaited at most once), the ID Analyzer call is issued at
\* most once, face detection at most twice, once per image, and face
\* verification at most once; a call that failed is the last call of its
\* request, except the ID Analyzer call, which is not issued again.
C12_NoRetry ==
  \A r \in Reqs :
    /\ CallCount(r, {"beginAnalyzeDocument"}) <= 1
    /\ CallCount(r, {"pollUntilDone"}) <= 1
    /\ CallCount(r, {"idAnalyzer"}) <= 1
    /\ CallCount(r, {"detectFace(selfie)", "detectFace(id)"}) <= 2
    /\ CallCount(r, {"detectFace(selfie)"}) <= 1
    /\ CallCount(r, {"detectFace(id)"}) <= 1
    /\ CallCount(r, {"verifyFaces"}) <= 1
    /\ \A i \in DOMAIN answers[r] : FailedCall(r, i) => i = Len(calls[r])

C12_Witness ==
  \E r \in Reqs :
    /\ Done(r)
    /\ IdAnalyzerThrew(r)
    /\ HasAnswer(r, "detectFace(id)")
    /\ AnswerTo(r, "detectFace(id)").threw
    /\ CallCount(r, {"detectFace(selfie)", "detectFace(id)"}) = 2
    /\ CallCount(r, {"idAnalyzer"}) = 1

\* The axios error with message m.
AxiosErrorOf(m) == CHOOSE e \in AxiosErrors : e.message = m

\* The response to the report step of a request that runs alone.
AloneFinish(q, data, idA, fm) ==
  LET st == ReportStatus(data, idA) IN
  IF st.threw THEN CatchResponse([message |-> st.message])
  ELSE ReportResponse(VerificationReport(q, data, fm, idA, st.status))

\* The response to the face step and the report step of a request that runs
\* alone, its face calls answering a[4], a[5], a[6].
AloneFaceStep(q, data, idA, a) ==
  IF ~FaceMatchRequested(q) THEN AloneFinish(q, data, idA, Null)
  ELSE IF a[4].threw THEN CatchResponse([message |-> a[4].message])
  ELSE IF DetectFace(a[4].result).threw
    THEN CatchResponse([message |-> DetectFace(a[4].result).message])
  ELSE IF a[5].threw THEN CatchResponse([message |-> a[5].message])
  ELSE IF DetectFace(a[5].result).threw
    THEN CatchResponse([message |-> DetectFace(a[5].result).message])
  ELSE IF ~BothDetected(DetectFace(a[4].result).faceId, DetectFace(a[5].result).faceId)
    THEN AloneFinish(q, data, idA, NoFaceVerdict)
  ELSE IF a[6].threw THEN CatchResponse([message |-> a[6].message])
  ELSE IF VerifyFaces(a[6].result).threw
    THEN CatchResponse([message |-> VerifyFaces(a[6].result).message])
  ELSE AloneFinish(q, data, idA, Verdict(VerifyFaces(a[6].result).isIdentical))

\* The response request q gets when it runs alone and its calls answer a,
\* in order.
AloneResponse(q, a) ==
  IF UploadSingle(q).error THEN DefaultErrorResponse
  ELSE IF MissingFile(UploadSingle(q).file) THEN NoImageResponse
  ELSE IF a[1].threw THEN CatchResponse([message |-> a[1].message])
  ELSE IF a[2].threw THEN CatchResponse([message |-> a[2].message])
  ELSE IF NoDocuments(a[2].result) THEN RecognitionFailedResponse
  ELSE AloneFaceStep(q, BuildIdData(FirstFields(a[2].result)),
                     IF a[3].threw THEN IdAnalyzerFailure(AxiosErrorOf(a[3].message))
                     ELSE a[3].result,
                     a)

\* Everything the server holds for request q.
Local(q) ==
  <<pc[q], req[q], polls[q], idResults[q], idData[q], idAnalyzerResult[q],
    selfieFaceId[q], idFaceId[q], faceMatchResult[q], caught[q], response[q],
    sent[q], calls[q], answers[q]>>

\* C13: under every interleaving of the requests at their awaits, a request
\* is answered as it would be alone with the same request and the same
\* answers of its calls, and a step of one request changes nothing that
\* belongs to another.
C13_RequestsIndependent ==
  /\ [](\A r \in Reqs : Done(r) => response[r] = AloneResponse(req[r], answers[r]))
  /\ [][\E r \in Reqs : \A q \in Reqs \ {r} : Local(q)' = Local(q)]_vars

\* A request is answered with its report while another, with other
\* documents, is awaiting its face verification.
C13_Witness ==
  \E r \in Reqs : \E q \in Reqs \ {r} :
    /\ IsReport(r)
    /\ response[r] = AloneResponse(req[r], answers[r])
    /\ pc[q] = "verify"
    /\ idData[q] # idData[r]
    /\ req[q] # req[r]

\* C14: the outcome of the ID Analyzer call never changes the HTTP status:
\* when the extraction returned a document and no face call fails, the
\* response is 200 whatever the ID Analyzer call threw or returned.
C14_AnalyzerOutcomeKeeps200 ==
  \A r \in Reqs :
    (Done(r) /\ SomeDocument(r) /\ HasAnswer(r, "idAnalyzer") /\ ~FaceStepFailed(r)) =>
      response[r].status = 200

\* C15: a request answered 400 made no downstream call: none at all when
\* the idImage is missing, and after zero documents neither the ID Analyzer
\* call nor a face call, even with enableFaceMatch 'true' and a faceImage.
C15_NoCallsBehind400 ==
  \A r \in Reqs :
    response[r].status = 400 =>
      /\ req[r].upload # "idImage" => calls[r] = <<>>
      /\ ZeroDocuments(r) => calls[r] = <<"beginAnalyzeDocument", "pollUntilDone">>
      /\ CallCount(r, {"idAnalyzer"} \cup FaceCalls) = 0

C15_Witness ==
  \E r \in Reqs :
    /\ response[r].status = 400
    /\ ZeroDocuments(r)
    /\ FaceMatchAsked(r)
    /\ calls[r] = <<"beginAnalyzeDocument", "pollUntilDone">>

\* C16: face verification is called exactly when the face step ran and both
\* detections returned a face id; when the selfie detection returns no face
\* id, the ID-image detection is still called and verification is not.
C16_VerifyIffBothDetected ==
  \A r \in Reqs :
    /\ CallCount(r, {"verifyFaces"}) > 0 <=>
         ( /\ FaceMatchAsked(r)
           /\ FaceReturned(r, "detectFace(selfie)")
           /\ FaceReturned(r, "detectFace(id)") )
    /\ NoFaceReturned(r, "detectFace(selfie)") =>
         /\ CallCount(r, {"detectFace(id)"}) = 1
         /\ CallCount(r, {"verifyFaces"}) = 0

C16_Witness ==
  \E r \in Reqs :
    /\ FaceMatchAsked(r)
    /\ NoFaceReturned(r, "detectFace(selfie)")
    /\ FaceReturned(r, "detectFace(id)")
    /\ CallCount(r, {"verifyFaces"}) = 0
    /\ IsReport(r)

====
